---- MODULE Spec2Model ----
(***************************************************************************)
(* Model of rstrict: a launcher that turns a declarative policy into a     *)
(* Landlock ruleset (sandbox::apply), commits it to the current process    *)
(* and then replaces the process image with the target command (main,      *)
(* exec::run).  utils::process_environment_vars formats the environment.   *)
(***************************************************************************)
EXTENDS Integers, Sequences, FiniteSets, TLC

(***************************************************************************)
(* Bounds of the model.                                                    *)
(***************************************************************************)
MaxPaths == 2        \* declared paths of a policy handed to apply, all four lists together
MaxPorts == 1        \* declared ports of a policy handed to apply, both lists together
MaxCliPaths == 1     \* --ro/--rox/--rw/--rwx occurrences on a command line of main
MaxEnv == 2          \* --env occurrences handed to process_environment_vars

(***************************************************************************)
(* The filesystem the program runs on: a file, a directory and a name that *)
(* cannot be opened.                                                       *)
(***************************************************************************)
Paths == {"/bin/ls", "/usr/lib", "/nonexistent"}

FsKind(path) ==
    CASE path = "/bin/ls" -> "file"
      [] path = "/usr/lib" -> "dir"
      [] path = "/usr/lib/libc.so.6" -> "file"
      [] OTHER -> "missing"

(***************************************************************************)
(* landlock::AccessFs / AccessNet and the rights each ABI revision knows.  *)
(***************************************************************************)
AccessFsV1 ==
    {"Execute", "WriteFile", "ReadFile", "ReadDir", "RemoveDir", "RemoveFile",
     "MakeChar", "MakeDir", "MakeReg", "MakeSock", "MakeFifo", "MakeBlock", "MakeSym"}

AccessFs_from_all(abi) ==
    IF abi = 0 THEN {}
    ELSE AccessFsV1
         \cup (IF abi >= 2 THEN {"Refer"} ELSE {})
         \cup (IF abi >= 3 THEN {"Truncate"} ELSE {})
         \cup (IF abi >= 5 THEN {"IoctlDev"} ELSE {})

AccessNet_from_all(abi) == IF abi >= 4 THEN {"BindTcp", "ConnectTcp"} ELSE {}

ABI_V5 == 5

KernelAbis == 0..5

(***************************************************************************)
(* sandbox::Config                                                         *)
(***************************************************************************)
SeqsUpTo(S, n) == UNION {[1..k -> S] : k \in 0..n}

Categories == {"ro", "rw", "rox", "rwx"}

PathsOf(decls, cat) ==
    LET IsCat(d) == d[1] = cat
        sel == SelectSeq(decls, IsCat)
    IN  [i \in 1..Len(sel) |-> sel[i][2]]

PortsOf(decls, kind) ==
    LET IsKind(d) == d[1] = kind
        sel == SelectSeq(decls, IsKind)
    IN  [i \in 1..Len(sel) |-> sel[i][2]]

Config(pathDecls, portDecls, be, ufs, unet) ==
    [read_only_paths |-> PathsOf(pathDecls, "ro"),
     read_write_paths |-> PathsOf(pathDecls, "rw"),
     read_only_executable_paths |-> PathsOf(pathDecls, "rox"),
     read_write_executable_paths |-> PathsOf(pathDecls, "rwx"),
     bind_tcp_ports |-> PortsOf(portDecls, "bind"),
     connect_tcp_ports |-> PortsOf(portDecls, "connect"),
     best_effort |-> be,
     unrestricted_filesystem |-> ufs,
     unrestricted_network |-> unet]

\* the --bind-tcp / --connect-tcp declarations policies are built from
PortDecls == {<<"bind", 80>>, <<"connect", 443>>}

Config_new == Config(<<>>, <<>>, FALSE, FALSE, FALSE)

Configs(maxPaths, maxPorts) ==
    {Config(pd, qd, be, ufs, unet) :
        pd \in SeqsUpTo(Categories \X Paths, maxPaths),
        qd \in SeqsUpTo(PortDecls, maxPorts),
        be \in BOOLEAN, ufs \in BOOLEAN, unet \in BOOLEAN}

ApplyConfigs == Configs(MaxPaths, MaxPorts)

VARIABLES
    pc,           \* position of the program
    idx,          \* index (1-based) of the next element of the list being iterated
    cli,          \* the parsed command line (main.rs Cli)
    ambient,      \* the environment rstrict itself was started with
    binary_path,  \* what which() resolved the command to
    env_vars,     \* the environment main hands to exec::run
    config,       \* the sandbox::Config apply works on
    ruleset,      \* the landlock Ruleset / RulesetCreated being built
    restriction,  \* the restriction committed to the process, or NotRestricted
    applyResult,  \* what apply returned: "none" while it has not returned
    log,          \* records written through the log macros and to stderr
    exitStatus,   \* "running", or the status the process exited with
    launched,     \* TRUE once execvpe has replaced the process image
    lddOutcome,   \* how the ldd invocation ended: "not_run" while main has not run it
    twin          \* the run of apply on the policy with best_effort flipped that this
                  \* run is compared with (used by SpecBestEffort only)

vars == <<pc, idx, cli, ambient, binary_path, env_vars, config, ruleset, restriction,
          applyResult, log, exitStatus, launched, lddOutcome, twin>>

mainVars == <<cli, ambient, binary_path, env_vars, exitStatus, launched, lddOutcome, twin>>

\* the variables apply works on
ApplyState ==
    [pc |-> pc, idx |-> idx, config |-> config, ruleset |-> ruleset,
     restriction |-> restriction, applyResult |-> applyResult, log |-> log]

\* the same state of apply for the policy with best_effort flipped
FlipBestEffort(st) == [st EXCEPT !.config.best_effort = ~@]

NotRestricted ==
    [committed |-> FALSE, status |-> "none", enforced_fs |-> {}, enforced_net |-> {},
     path_rules |-> <<>>, port_rules |-> <<>>]

Ruleset_default ==
    [handled_fs |-> {}, handled_net |-> {}, created |-> FALSE,
     path_rules |-> <<>>, port_rules |-> <<>>]

NoState ==
    [pc |-> "none", idx |-> 1, config |-> Config_new, ruleset |-> Ruleset_default,
     restriction |-> NotRestricted, applyResult |-> "none", log |-> <<>>]

\* no comparison under way: apply just runs
NoTwin == [phase |-> "run", from |-> NoState, to |-> NoState]

Logged(level, msg) == Append(log, [level |-> level, msg |-> msg])

IsErr(r) == r \notin {"none", "Ok(())"}

(***************************************************************************)
(* What the kernel makes of a ruleset at restrict_self: the handled rights *)
(* its ABI revision knows are enforced, and RulesetStatus reports whether  *)
(* that is all, some or none of what was requested.                        *)
(***************************************************************************)
RulesetStatus(rs, abi) ==
    LET requested == rs.handled_fs \cup rs.handled_net
        enforced == (rs.handled_fs \cap AccessFs_from_all(abi))
                    \cup (rs.handled_net \cap AccessNet_from_all(abi))
    IN  IF enforced = {} THEN "NotEnforced"
        ELSE IF enforced = requested THEN "FullyEnforced"
        ELSE "PartiallyEnforced"

restrict_self(rs, abi) ==
    [committed |-> TRUE,
     status |-> RulesetStatus(rs, abi),
     enforced_fs |-> rs.handled_fs \cap AccessFs_from_all(abi),
     enforced_net |-> rs.handled_net \cap AccessNet_from_all(abi),
     path_rules |-> rs.path_rules,
     port_rules |-> rs.port_rules]

(***************************************************************************)
(* sandbox::is_directory: a failed metadata lookup counts as "no".         *)
(***************************************************************************)
is_directory(path, metadataOk) == metadataOk /\ FsKind(path) = "dir"

PathFd_new(path) == FsKind(path) # "missing"

IsDefaultDeny(c) ==
    /\ c.read_only_paths = <<>>
    /\ c.read_write_paths = <<>>
    /\ c.read_only_executable_paths = <<>>
    /\ c.read_write_executable_paths = <<>>
    /\ c.bind_tcp_ports = <<>>
    /\ c.connect_tcp_ports = <<>>
    /\ ~c.unrestricted_filesystem
    /\ ~c.unrestricted_network

(***************************************************************************)
(* The six for loops of apply, in source order, and the position reached   *)
(* when a loop is left.                                                    *)
(***************************************************************************)
LoopOrder == <<"rox", "rwx", "ro", "rw", "bind", "connect">>

LoopList(c, loop) ==
    CASE loop = "rox" -> c.read_only_executable_paths
      [] loop = "rwx" -> c.read_write_executable_paths
      [] loop = "ro" -> c.read_only_paths
      [] loop = "rw" -> c.read_write_paths
      [] loop = "bind" -> c.bind_tcp_ports
      [] loop = "connect" -> c.connect_tcp_ports

\* LoopRuns with the unrestricted_network test of the port loops left out
LoopRuns_PortsAlways(c, loop) ==
    IF loop \in {"bind", "connect"} THEN TRUE
    ELSE ~c.unrestricted_filesystem

LoopRuns(c, loop) ==
    IF loop \in {"bind", "connect"} THEN ~c.unrestricted_network
    ELSE ~c.unrestricted_filesystem

\* LoopFrom that goes to the commit once the path loops are done, skipping the port loops
LoopFrom_NoPorts(c, k) ==
    LET later == {j \in k..4 : LoopRuns(c, LoopOrder[j]) /\ LoopList(c, LoopOrder[j]) # <<>>}
    IN  IF later = {} THEN "restrict_self"
        ELSE LoopOrder[CHOOSE j \in later : \A i \in later : j <= i]

RECURSIVE LoopFrom(_, _)
LoopFrom(c, k) ==
    IF k > Len(LoopOrder) THEN "restrict_self"
    ELSE IF LoopRuns(c, LoopOrder[k]) /\ LoopList(c, LoopOrder[k]) # <<>> THEN LoopOrder[k]
    ELSE LoopFrom(c, k + 1)

LoopIndex(loop) == CHOOSE k \in 1..Len(LoopOrder) : LoopOrder[k] = loop

Return(result) ==
    /\ applyResult' = result
    /\ pc' = "apply_ret"
    /\ idx' = 1

Continue(loop) ==
    /\ applyResult' = applyResult
    /\ IF idx < Len(LoopList(config, loop))
       THEN pc' = pc /\ idx' = idx + 1
       ELSE pc' = LoopFrom(config, LoopIndex(loop) + 1) /\ idx' = 1

(***************************************************************************)
(* sandbox::apply                                                          *)
(***************************************************************************)
ApplyStart ==
    /\ pc = "apply"
    /\ ruleset' = Ruleset_default
    /\ IF IsDefaultDeny(config)
       THEN /\ pc' = "default_handle_fs"
            /\ log' = Append(Logged("info", "Applying sandbox configuration"),
                        [level |-> "error",
                         msg |-> "No rules provided, applying default restrictive rules"])
       ELSE /\ pc' = "handle_fs"
            /\ log' = Logged("info", "Applying sandbox configuration")
    /\ UNCHANGED <<idx, config, restriction, applyResult, mainVars>>

DefaultHandleFs ==
    /\ pc = "default_handle_fs"
    /\ IF ~config.unrestricted_filesystem
       THEN \E ok \in BOOLEAN :
              IF ok
              THEN /\ ruleset' = [ruleset EXCEPT !.handled_fs = AccessFs_from_all(ABI_V5)]
                   /\ pc' = "default_handle_net"
                   /\ UNCHANGED <<idx, applyResult>>
              ELSE /\ Return("Err(handle_access)")
                   /\ UNCHANGED ruleset
       ELSE /\ pc' = "default_handle_net"
            /\ UNCHANGED <<idx, applyResult, ruleset>>
    /\ UNCHANGED <<config, restriction, log, mainVars>>

\* DefaultHandleNet with the second handle_access call (ConnectTcp) left out
DefaultHandleNet_BindOnly ==
    /\ pc = "default_handle_net"
    /\ ruleset' = [ruleset EXCEPT !.handled_net = {"BindTcp"}]
    /\ pc' = "default_restrict_self"
    /\ UNCHANGED <<idx, applyResult, config, restriction, log, mainVars>>

DefaultHandleNet ==
    /\ pc = "default_handle_net"
    /\ IF ~config.unrestricted_network
       THEN \E ok \in BOOLEAN :
              IF ok
              THEN /\ ruleset' = [ruleset EXCEPT !.handled_net = {"BindTcp", "ConnectTcp"}]
                   /\ pc' = "default_restrict_self"
                   /\ UNCHANGED <<idx, applyResult>>
              ELSE /\ Return("Err(handle_access)")
                   /\ UNCHANGED ruleset
       ELSE /\ pc' = "default_restrict_self"
            /\ UNCHANGED <<idx, applyResult, ruleset>>
    /\ UNCHANGED <<config, restriction, log, mainVars>>

DefaultRestrictSelf ==
    /\ pc = "default_restrict_self"
    /\ \E outcome \in {"ok", "create_failed", "restrict_self_failed"}, abi \in KernelAbis :
         CASE outcome = "create_failed" ->
                /\ Return("Err(create)")
                /\ UNCHANGED <<ruleset, restriction, log>>
           [] outcome = "restrict_self_failed" ->
                /\ Return("Err(restrict_self)")
                /\ ruleset' = [ruleset EXCEPT !.created = TRUE]
                /\ UNCHANGED <<restriction, log>>
           [] outcome = "ok" ->
                /\ ruleset' = [ruleset EXCEPT !.created = TRUE]
                /\ restriction' = restrict_self(ruleset, abi)
                /\ log' = IF RulesetStatus(ruleset, abi) = "NotEnforced"
                          THEN Logged("info", "Landlock is not supported by the running kernel")
                          ELSE Logged("info", "Default restrictive rules applied successfully")
                /\ Return("Ok(())")
    /\ UNCHANGED <<config, mainVars>>

HandleFs ==
    /\ pc = "handle_fs"
    /\ IF ~config.unrestricted_filesystem
       THEN \E ok \in BOOLEAN :
              IF ok
              THEN /\ ruleset' = [ruleset EXCEPT !.handled_fs = AccessFs_from_all(ABI_V5)]
                   /\ pc' = "handle_net"
                   /\ UNCHANGED <<idx, applyResult, log>>
              ELSE /\ Return("Err(handle_access)")
                   /\ UNCHANGED <<ruleset, log>>
       ELSE /\ pc' = "handle_net"
            /\ log' = Logged("info", "Unrestricted filesystem access enabled")
            /\ UNCHANGED <<idx, applyResult, ruleset>>
    /\ UNCHANGED <<config, restriction, mainVars>>

HandleNet ==
    /\ pc = "handle_net"
    /\ IF ~config.unrestricted_network
       THEN \E ok \in BOOLEAN :
              IF ok
              THEN /\ ruleset' = [ruleset EXCEPT !.handled_net = {"BindTcp", "ConnectTcp"}]
                   /\ pc' = "create"
                   /\ UNCHANGED <<idx, applyResult, log>>
              ELSE /\ Return("Err(handle_access)")
                   /\ UNCHANGED <<ruleset, log>>
       ELSE /\ pc' = "create"
            /\ log' = Logged("info", "Unrestricted network access enabled")
            /\ UNCHANGED <<idx, applyResult, ruleset>>
    /\ UNCHANGED <<config, restriction, mainVars>>

Create ==
    /\ pc = "create"
    /\ \E ok \in BOOLEAN :
         IF ok
         THEN /\ ruleset' = [ruleset EXCEPT !.created = TRUE]
              /\ pc' = LoopFrom(config, 1)
              /\ idx' = 1
              /\ UNCHANGED applyResult
         ELSE /\ Return("Err(create)")
              /\ UNCHANGED ruleset
    /\ UNCHANGED <<config, restriction, log, mainVars>>


(***************************************************************************)
(* The access rights each of the four loop bodies collects in access_fs.   *)
(***************************************************************************)
RoxAccess(isDir) ==
    {"ReadFile", "Execute"} \cup (IF isDir THEN {"ReadDir"} ELSE {})

RwxAccess(isDir) ==
    {"ReadFile", "WriteFile", "Execute"}
    \cup (IF isDir
          THEN {"ReadDir", "RemoveDir", "RemoveFile", "MakeChar", "MakeDir",
                "MakeReg", "MakeSock", "MakeFifo", "MakeBlock", "MakeSym"}
          ELSE {})

RoAccess(isDir) ==
    {"ReadFile"} \cup (IF isDir THEN {"ReadDir"} ELSE {})

\* RwAccess with the last right of the directory block (MakeSym) forgotten
RwAccess_NoMakeSym(isDir) ==
    {"ReadFile", "WriteFile"}
    \cup (IF isDir
          THEN {"ReadDir", "RemoveDir", "RemoveFile", "MakeChar", "MakeDir",
                "MakeReg", "MakeSock", "MakeFifo", "MakeBlock"}
          ELSE {})

RwAccess(isDir) ==
    {"ReadFile", "WriteFile"}
    \cup (IF isDir
          THEN {"ReadDir", "RemoveDir", "RemoveFile", "MakeChar", "MakeDir",
                "MakeReg", "MakeSock", "MakeFifo", "MakeBlock", "MakeSym"}
          ELSE {})

\* a registered rule; category and metadata record which loop registered it and
\* what the metadata lookup of is_directory gave
PathBeneath(path, access, cat, metadataOk) ==
    [path |-> path, access |-> access, category |-> cat,
     metadata |-> IF metadataOk THEN "ok" ELSE "error"]

AccessOf(loop, isDir) ==
    CASE loop = "rox" -> RoxAccess(isDir)
      [] loop = "rwx" -> RwxAccess(isDir)
      [] loop = "ro" -> RoAccess(isDir)
      [] loop = "rw" -> RwAccess(isDir)

NetPort(port, access) == [port |-> port, access |-> access]

(***************************************************************************)
(* One iteration of a path loop: open the path, derive its rights,         *)
(* register the rule; an unopenable path or a refused rule ends apply.     *)
(***************************************************************************)
\* AddPath that keeps one rule per path: a new declaration replaces the earlier rule
AddPath_LastWins(loop) ==
    /\ pc = loop
    /\ LET path == LoopList(config, loop)[idx]
           OtherPath(rule) == rule.path # path
       IN  IF PathFd_new(path)
           THEN \E metadataOk \in BOOLEAN, ok \in BOOLEAN :
                  IF ok
                  THEN /\ ruleset' = [ruleset EXCEPT !.path_rules =
                              Append(SelectSeq(@, OtherPath),
                                     PathBeneath(path,
                                                 AccessOf(loop, is_directory(path, metadataOk)),
                                                 loop, metadataOk))]
                       /\ Continue(loop)
                       /\ UNCHANGED log
                  ELSE /\ Return("Err(add_rule)")
                       /\ UNCHANGED <<ruleset, log>>
           ELSE /\ log' = Logged("error", "Failed to access path")
                /\ Return("Err(Failed to access path)")
                /\ UNCHANGED ruleset
    /\ UNCHANGED <<config, restriction, mainVars>>

\* AddPath that tolerates a path it cannot open when best_effort is set
AddPath_BestEffortSkip(loop) ==
    /\ pc = loop
    /\ LET path == LoopList(config, loop)[idx]
       IN  IF PathFd_new(path)
           THEN \E metadataOk \in BOOLEAN, ok \in BOOLEAN :
                  IF ok
                  THEN /\ ruleset' = [ruleset EXCEPT !.path_rules =
                              Append(@, PathBeneath(path,
                                                    AccessOf(loop, is_directory(path, metadataOk)),
                                                    loop, metadataOk))]
                       /\ Continue(loop)
                       /\ UNCHANGED log
                  ELSE /\ Return("Err(add_rule)")
                       /\ UNCHANGED <<ruleset, log>>
           ELSE IF config.best_effort
           THEN /\ log' = Logged("warn", "Failed to access path")
                /\ Continue(loop)
                /\ UNCHANGED ruleset
           ELSE /\ log' = Logged("error", "Failed to access path")
                /\ Return("Err(Failed to access path)")
                /\ UNCHANGED ruleset
    /\ UNCHANGED <<config, restriction, mainVars>>

\* AddPath that skips a path it cannot open instead of returning the error
AddPath_SkipUnopenable(loop) ==
    /\ pc = loop
    /\ LET path == LoopList(config, loop)[idx]
       IN  IF PathFd_new(path)
           THEN \E metadataOk \in BOOLEAN :
                  /\ ruleset' = [ruleset EXCEPT !.path_rules =
                         Append(@, PathBeneath(path,
                                               AccessOf(loop, is_directory(path, metadataOk)),
                                               loop, metadataOk))]
                  /\ Continue(loop)
                  /\ UNCHANGED log
           ELSE /\ log' = Logged("error", "Failed to access path")
                /\ Continue(loop)
                /\ UNCHANGED ruleset
    /\ UNCHANGED <<config, restriction, mainVars>>

AddPath(loop) ==
    /\ pc = loop
    /\ LET path == LoopList(config, loop)[idx]
       IN  IF PathFd_new(path)
           THEN \E metadataOk \in BOOLEAN, ok \in BOOLEAN :
                  IF ok
                  THEN /\ ruleset' = [ruleset EXCEPT !.path_rules =
                              Append(@, PathBeneath(path,
                                                    AccessOf(loop, is_directory(path, metadataOk)),
                                                    loop, metadataOk))]
                       /\ Continue(loop)
                       /\ UNCHANGED log
                  ELSE /\ Return("Err(add_rule)")
                       /\ UNCHANGED <<ruleset, log>>
           ELSE /\ log' = Logged("error", "Failed to access path")
                /\ Return("Err(Failed to access path)")
                /\ UNCHANGED ruleset
    /\ UNCHANGED <<config, restriction, mainVars>>

AddRox == AddPath("rox")

AddRwx == AddPath("rwx")

AddRo == AddPath("ro")

AddRw == AddPath("rw")

AddPort(loop, access) ==
    /\ pc = loop
    /\ \E ok \in BOOLEAN :
         IF ok
         THEN /\ ruleset' = [ruleset EXCEPT !.port_rules =
                     Append(@, NetPort(LoopList(config, loop)[idx], access))]
              /\ Continue(loop)
         ELSE /\ Return("Err(add_rule)")
              /\ UNCHANGED ruleset
    /\ UNCHANGED <<config, restriction, log, mainVars>>

AddBind == AddPort("bind", "BindTcp")

AddConnect == AddPort("connect", "ConnectTcp")

\* RestrictSelf that treats a NotEnforced status as an error
RestrictSelf_StrictStatus ==
    /\ pc = "restrict_self"
    /\ \E ok \in BOOLEAN, abi \in KernelAbis :
         IF ok /\ RulesetStatus(ruleset, abi) # "NotEnforced"
         THEN /\ restriction' = restrict_self(ruleset, abi)
              /\ log' = Logged("info", "Landlock restrictions applied successfully")
              /\ Return("Ok(())")
         ELSE /\ restriction' = IF ok THEN restrict_self(ruleset, abi) ELSE restriction
              /\ Return("Err(restrict_self)")
              /\ UNCHANGED log
    /\ UNCHANGED <<config, ruleset, mainVars>>

RestrictSelf ==
    /\ pc = "restrict_self"
    /\ \E ok \in BOOLEAN, abi \in KernelAbis :
         IF ok
         THEN /\ restriction' = restrict_self(ruleset, abi)
              /\ log' = IF RulesetStatus(ruleset, abi) = "NotEnforced"
                        THEN Logged("info", "Landlock is not supported by the running kernel")
                        ELSE Logged("info", "Landlock restrictions applied successfully")
              /\ Return("Ok(())")
         ELSE /\ Return("Err(restrict_self)")
              /\ UNCHANGED <<restriction, log>>
    /\ UNCHANGED <<config, ruleset, mainVars>>

(***************************************************************************)
(* utils::process_environment_vars.  A string is the sequence of its       *)
(* characters; a variable of the ambient environment is unset, set to a    *)
(* string, or set to bytes that are not valid Unicode.                     *)
(***************************************************************************)
Str_A1 == <<"A", "=", "1">>
Str_B == <<"B">>
Str_B2 == <<"B", "=", "2">>
Str_A == <<"A">>

EnvEntries == {Str_A1, Str_B, Str_B2, Str_A, <<>>}

AmbientKeys == {Str_A, Str_B}

Unset == [set |-> FALSE, unicode |-> TRUE, value |-> <<>>]
NotUnicode == [set |-> TRUE, unicode |-> FALSE, value |-> <<"\\xFF">>]
SetTo(v) == [set |-> TRUE, unicode |-> TRUE, value |-> v]

AmbientValues == {Unset, NotUnicode, SetTo(<<"2">>)}

Ambients == [AmbientKeys -> AmbientValues]

NoAmbient == [k \in AmbientKeys |-> Unset]

contains(s, ch) == \E i \in 1..Len(s) : s[i] = ch

\* std::env::var: Err when the variable is absent or its value is not Unicode
env_var(key, amb) ==
    IF key \in DOMAIN amb /\ amb[key].set /\ amb[key].unicode
    THEN [ok |-> TRUE, val |-> amb[key].value]
    ELSE [ok |-> FALSE, val |-> <<>>]

format_key_value(key, val) == key \o <<"=">> \o val

RECURSIVE env_loop(_, _, _, _)
env_loop(env_flags, amb, i, result) ==
    IF i > Len(env_flags) THEN result
    ELSE LET env_flag == env_flags[i]
         IN  IF ~contains(env_flag, "=")
             THEN IF env_var(env_flag, amb).ok
                  THEN env_loop(env_flags, amb, i + 1,
                         Append(result, format_key_value(env_flag, env_var(env_flag, amb).val)))
                  ELSE env_loop(env_flags, amb, i + 1, result)
             ELSE env_loop(env_flags, amb, i + 1, Append(result, env_flag))

process_environment_vars(env_flags, amb) == env_loop(env_flags, amb, 1, <<>>)

(***************************************************************************)
(* main.rs Cli                                                             *)
(***************************************************************************)
Cli(c, add_exec, ldd, envs) ==
    [read_only_paths |-> c.read_only_paths,
     read_write_paths |-> c.read_write_paths,
     read_only_executable_paths |-> c.read_only_executable_paths,
     read_write_executable_paths |-> c.read_write_executable_paths,
     bind_tcp_ports |-> c.bind_tcp_ports,
     connect_tcp_ports |-> c.connect_tcp_ports,
     best_effort |-> c.best_effort,
     unrestricted_filesystem |-> c.unrestricted_filesystem,
     unrestricted_network |-> c.unrestricted_network,
     add_exec |-> add_exec,
     ldd |-> ldd,
     env_vars |-> envs,
     command |-> <<"ls">>]

NoCli == Cli(Config_new, FALSE, FALSE, <<>>)

\* the port options and --env options of the command lines main is run on
CliPortDecls == {<<>>, <<<<"bind", 80>>, <<"connect", 443>>>>}

CliEnvs == {<<<<Str_A1, Str_B>>, NoAmbient>>,
            <<<<Str_A1, Str_B>>, [NoAmbient EXCEPT ![Str_B] = SetTo(<<"2">>)]>>}

\* what ldd reports for the binary when it runs
LddLibs == {<<"/usr/lib/libc.so.6", "/usr/lib">>}

(***************************************************************************)
(* main                                                                    *)
(***************************************************************************)
Exit(status) ==
    /\ exitStatus' = status
    /\ pc' = "exited"

\* main.rs 97-127: parse, check the command, resolve the binary with which()
MainResolve ==
    /\ pc = "main"
    /\ IF cli.command = <<>>
       THEN /\ log' = Logged("error", "Missing command to run")
            /\ Exit("1")
            /\ UNCHANGED binary_path
       ELSE \E found \in BOOLEAN :
              IF found
              THEN /\ binary_path' = "/bin/ls"
                   /\ pc' = "build_config"
                   /\ UNCHANGED <<log, exitStatus>>
              ELSE /\ log' = Logged("stderr", "Failed to find binary")
                   /\ Exit("1")
                   /\ UNCHANGED binary_path
    /\ UNCHANGED <<idx, cli, ambient, env_vars, config, ruleset, restriction,
                   applyResult, launched, lddOutcome, twin>>

\* main.rs 130-147: copy the command line into a Config, push the binary for --add-exec
MainBuildConfig ==
    /\ pc = "build_config"
    /\ config' =
         [read_only_paths |-> cli.read_only_paths,
          read_write_paths |-> cli.read_write_paths,
          read_only_executable_paths |->
              IF cli.add_exec
              THEN Append(cli.read_only_executable_paths, binary_path)
              ELSE cli.read_only_executable_paths,
          read_write_executable_paths |-> cli.read_write_executable_paths,
          bind_tcp_ports |-> cli.bind_tcp_ports,
          connect_tcp_ports |-> cli.connect_tcp_ports,
          best_effort |-> cli.best_effort,
          unrestricted_filesystem |-> cli.unrestricted_filesystem,
          unrestricted_network |-> cli.unrestricted_network]
    /\ pc' = IF cli.ldd THEN "ldd" ELSE "env"
    /\ UNCHANGED <<idx, cli, ambient, binary_path, env_vars, ruleset, restriction,
                   applyResult, log, exitStatus, launched, lddOutcome, twin>>

\* exec::get_library_dependencies: the ways the ldd invocation ends
LddOutcomes == {"spawn_failed", "nonzero_exit", "invalid_utf8", "ok"}

\* get_library_dependencies without the exit status test: what ldd printed is parsed anyway
get_library_dependencies_IgnoreStatus(outcome, libs) ==
    IF outcome \in {"ok", "nonzero_exit"} THEN [ok |-> TRUE, lib_paths |-> libs]
    ELSE [ok |-> FALSE, lib_paths |-> <<>>]

get_library_dependencies(outcome, libs) ==
    IF outcome = "ok" THEN [ok |-> TRUE, lib_paths |-> libs]
    ELSE [ok |-> FALSE, lib_paths |-> <<>>]

\* main.rs 150-163
MainLdd ==
    /\ pc = "ldd"
    /\ \E outcome \in LddOutcomes, libs \in LddLibs :
         LET r == get_library_dependencies(outcome, libs)
         IN  /\ lddOutcome' = outcome
             /\ IF r.ok
                THEN /\ config' = [config EXCEPT
                                      !.read_only_executable_paths = @ \o r.lib_paths]
                     /\ pc' = "env"
                     /\ UNCHANGED <<log, exitStatus>>
                ELSE /\ log' = Logged("error", "Failed to detect library dependencies")
                     /\ Exit("1")
                     /\ UNCHANGED config
    /\ UNCHANGED <<idx, cli, ambient, binary_path, env_vars, ruleset, restriction,
                   applyResult, launched, twin>>

\* main.rs 166
MainEnv ==
    /\ pc = "env"
    /\ env_vars' = process_environment_vars(cli.env_vars, ambient)
    /\ pc' = "apply"
    /\ UNCHANGED <<idx, cli, ambient, binary_path, config, ruleset, restriction,
                   applyResult, log, exitStatus, launched, lddOutcome, twin>>

\* MainAfterApply with the result of apply ignored
MainAfterApply_IgnoreErr ==
    /\ pc = "apply_ret"
    /\ pc' = "exec_run"
    /\ UNCHANGED <<log, exitStatus, idx, cli, ambient, binary_path, env_vars, config,
                   ruleset, restriction, applyResult, launched, lddOutcome, twin>>

\* main.rs 169-172
MainAfterApply ==
    /\ pc = "apply_ret"
    /\ IF IsErr(applyResult)
       THEN /\ log' = Logged("error", "Failed to apply sandbox")
            /\ Exit("1")
       ELSE /\ pc' = "exec_run"
            /\ UNCHANGED <<log, exitStatus>>
    /\ UNCHANGED <<idx, cli, ambient, binary_path, env_vars, config, ruleset,
                   restriction, applyResult, launched, lddOutcome, twin>>

\* exec::run and main.rs 175-178: execvpe replaces the image or its error ends main
ExecRun ==
    /\ pc = "exec_run"
    /\ \E outcome \in {"replaced", "cstring_error", "execvpe_error"} :
         IF outcome = "replaced"
         THEN /\ launched' = TRUE
              /\ pc' = "replaced"
              /\ UNCHANGED <<log, exitStatus>>
         ELSE /\ log' = Logged("error", "Failed to execute command")
              /\ Exit("1")
              /\ UNCHANGED launched
    /\ UNCHANGED <<idx, cli, ambient, binary_path, env_vars, config, ruleset,
                   restriction, applyResult, lddOutcome, twin>>

(***************************************************************************)
(* The program: main run on a command line.                                *)
(***************************************************************************)
CliConfigs ==
    {Config(pd, qd, be, ufs, unet) :
        pd \in SeqsUpTo(Categories \X Paths, MaxCliPaths),
        qd \in CliPortDecls,
        be \in BOOLEAN, ufs \in BOOLEAN, unet \in BOOLEAN}

Init ==
    /\ pc = "main"
    /\ idx = 1
    /\ \E c \in CliConfigs, add_exec \in BOOLEAN, ldd \in BOOLEAN, e \in CliEnvs :
         /\ cli = Cli(c, add_exec, ldd, e[1])
         /\ ambient = e[2]
    /\ binary_path = ""
    /\ env_vars = <<>>
    /\ config = Config_new
    /\ ruleset = Ruleset_default
    /\ restriction = NotRestricted
    /\ applyResult = "none"
    /\ log = <<>>
    /\ exitStatus = "running"
    /\ launched = FALSE
    /\ lddOutcome = "not_run"
    /\ twin = NoTwin

Next ==
    \/ MainResolve
    \/ MainBuildConfig
    \/ MainLdd
    \/ MainEnv
    \/ ApplyStart
    \/ DefaultHandleFs
    \/ DefaultHandleNet
    \/ DefaultRestrictSelf
    \/ HandleFs
    \/ HandleNet
    \/ Create
    \/ AddRox
    \/ AddRwx
    \/ AddRo
    \/ AddRw
    \/ AddBind
    \/ AddConnect
    \/ RestrictSelf
    \/ MainAfterApply
    \/ ExecRun

Spec == Init /\ [][Next]_vars

(***************************************************************************)
(* apply called on any policy by a process that is not yet restricted.     *)
(***************************************************************************)
InitApply ==
    /\ pc = "apply"
    /\ idx = 1
    /\ cli = NoCli
    /\ ambient = NoAmbient
    /\ binary_path = ""
    /\ env_vars = <<>>
    /\ config \in ApplyConfigs
    /\ ruleset = Ruleset_default
    /\ restriction = NotRestricted
    /\ applyResult = "none"
    /\ log = <<>>
    /\ exitStatus = "running"
    /\ launched = FALSE
    /\ lddOutcome = "not_run"
    /\ twin = NoTwin

NextApply ==
    \/ ApplyStart
    \/ DefaultHandleFs
    \/ DefaultHandleNet
    \/ DefaultRestrictSelf
    \/ HandleFs
    \/ HandleNet
    \/ Create
    \/ AddRox
    \/ AddRwx
    \/ AddRo
    \/ AddRw
    \/ AddBind
    \/ AddConnect
    \/ RestrictSelf

SpecApply == InitApply /\ [][NextApply]_vars

(***************************************************************************)
(* process_environment_vars called on any list of --env entries in any     *)
(* ambient environment.                                                    *)
(***************************************************************************)
InitEnv ==
    /\ pc = "env"
    /\ idx = 1
    /\ \E envs \in SeqsUpTo(EnvEntries, MaxEnv) : cli = Cli(Config_new, FALSE, FALSE, envs)
    /\ ambient \in Ambients
    /\ binary_path = "/bin/ls"
    /\ env_vars = <<>>
    /\ config = Config_new
    /\ ruleset = Ruleset_default
    /\ restriction = NotRestricted
    /\ applyResult = "none"
    /\ log = <<>>
    /\ exitStatus = "running"
    /\ launched = FALSE
    /\ lddOutcome = "not_run"
    /\ twin = NoTwin

NextEnv == MainEnv

SpecEnv == InitEnv /\ [][NextEnv]_vars

(***************************************************************************)
(* apply compared on two policies that differ only in best_effort: apply   *)
(* runs on one policy to any state, takes one more step, and is then put   *)
(* in the state before that step with best_effort flipped, where it has to *)
(* take the same step.                                                     *)
(***************************************************************************)
MaxTwinPaths == 1    \* declared paths of the policies the two runs of apply are compared on

TwinConfigs == Configs(MaxTwinPaths, MaxPorts)

InitBestEffort ==
    /\ pc = "apply"
    /\ idx = 1
    /\ cli = NoCli
    /\ ambient = NoAmbient
    /\ binary_path = ""
    /\ env_vars = <<>>
    /\ config \in TwinConfigs
    /\ ruleset = Ruleset_default
    /\ restriction = NotRestricted
    /\ applyResult = "none"
    /\ log = <<>>
    /\ exitStatus = "running"
    /\ launched = FALSE
    /\ lddOutcome = "not_run"
    /\ twin = NoTwin

\* apply runs on the first policy
TwinRun ==
    /\ twin.phase = "run"
    /\ NextApply

\* the state the two runs are compared from
TwinMark ==
    /\ twin.phase = "run"
    /\ pc # "apply_ret"
    /\ twin' = [phase |-> "marked", from |-> ApplyState, to |-> NoState]
    /\ UNCHANGED <<pc, idx, cli, ambient, binary_path, env_vars, config, ruleset,
                   restriction, applyResult, log, exitStatus, launched, lddOutcome>>

\* one step of apply on the first policy from the marked state
TwinStep ==
    /\ twin.phase = "marked"
    /\ ApplyState = twin.from
    /\ NextApply

\* back to the marked state, on the policy with best_effort flipped; the state the
\* first policy's step led to, with best_effort flipped, is kept as the state to match
TwinSwitch ==
    /\ twin.phase = "marked"
    /\ ApplyState # twin.from
    /\ twin' = [phase |-> "check", from |-> twin.from, to |-> FlipBestEffort(ApplyState)]
    /\ pc' = twin.from.pc
    /\ idx' = twin.from.idx
    /\ config' = FlipBestEffort(twin.from).config
    /\ ruleset' = twin.from.ruleset
    /\ restriction' = twin.from.restriction
    /\ applyResult' = twin.from.applyResult
    /\ log' = twin.from.log
    /\ UNCHANGED <<cli, ambient, binary_path, env_vars, exitStatus, launched, lddOutcome>>

\* the step of apply on the flipped policy that matches the first policy's step
TwinMatch ==
    /\ twin.phase = "check"
    /\ ApplyState = FlipBestEffort(twin.from)
    /\ NextApply
    /\ pc' = twin.to.pc
    /\ idx' = twin.to.idx
    /\ config' = twin.to.config
    /\ ruleset' = twin.to.ruleset
    /\ restriction' = twin.to.restriction
    /\ applyResult' = twin.to.applyResult
    /\ log' = twin.to.log

NextBestEffort ==
    \/ TwinRun
    \/ TwinMark
    \/ TwinStep
    \/ TwinSwitch
    \/ TwinMatch

SpecBestEffort == InitBestEffort /\ [][NextBestEffort]_vars

(***************************************************************************)
(* What a committed restriction means for the process: a handled right the *)
(* kernel enforces is denied unless a rule grants it.                      *)
(***************************************************************************)
AllAccessFs == AccessFs_from_all(ABI_V5)

AllAccessNet == {"BindTcp", "ConnectTcp"}

AllPorts == {80, 443}

RuleRights(rules, path) ==
    UNION {rules[i].access : i \in {j \in 1..Len(rules) : rules[j].path = path}}

Effective(path) == RuleRights(restriction.path_rules, path)

FsDenied(path, right) ==
    /\ restriction.committed
    /\ right \in restriction.enforced_fs
    /\ right \notin Effective(path)

NetDenied(port, right) ==
    /\ restriction.committed
    /\ right \in restriction.enforced_net
    /\ ~\E i \in 1..Len(restriction.port_rules) :
          restriction.port_rules[i] = [port |-> port, access |-> right]

EverythingDenied ==
    /\ \A path \in Paths, right \in AllAccessFs : FsDenied(path, right)
    /\ \A port \in AllPorts, right \in AllAccessNet : NetDenied(port, right)

LogHas(msg) == \E i \in 1..Len(log) : log[i].msg = msg

DeclaredPaths(c) ==
    c.read_only_executable_paths \o c.read_write_executable_paths
    \o c.read_only_paths \o c.read_write_paths

DeclaredPorts(c) == c.bind_tcp_ports \o c.connect_tcp_ports

HasUnopenablePath(c) ==
    \E i \in 1..Len(DeclaredPaths(c)) : FsKind(DeclaredPaths(c)[i]) = "missing"

(***************************************************************************)
(* C1 as stated: for every policy with all six lists empty and both        *)
(* unrestricted flags false, apply negotiates every filesystem right plus  *)
(* TCP bind and connect, registers no rule and commits, so that once apply *)
(* has returned every filesystem access and every TCP bind/connect is      *)
(* denied.  Stated for the runs in which apply returns success.            *)
(***************************************************************************)
C1_DefaultDenyUnconditional ==
    (pc = "apply_ret" /\ IsDefaultDeny(config) /\ applyResult = "Ok(())") =>
        /\ ruleset.handled_fs = AllAccessFs
        /\ ruleset.handled_net = AllAccessNet
        /\ ruleset.path_rules = <<>> /\ ruleset.port_rules = <<>>
        /\ restriction.committed
        /\ EverythingDenied

(***************************************************************************)
(* C1 as amended: for such a policy apply registers no path or port rule;  *)
(* when it returns success it has negotiated every filesystem right plus   *)
(* TCP bind and connect and committed that rule-less ruleset, and when the *)
(* commit reports the ruleset fully enforced every filesystem access and   *)
(* every TCP bind/connect is denied; when a negotiation, create or commit  *)
(* step fails apply returns an error and nothing is committed.             *)
(***************************************************************************)
C1_DefaultDeny ==
    (pc = "apply_ret" /\ IsDefaultDeny(config)) =>
        /\ ruleset.path_rules = <<>> /\ ruleset.port_rules = <<>>
        /\ applyResult = "Ok(())" =>
              /\ ruleset.handled_fs = AllAccessFs
              /\ ruleset.handled_net = AllAccessNet
              /\ restriction.committed
              /\ restriction.path_rules = <<>> /\ restriction.port_rules = <<>>
              /\ restriction.status = "FullyEnforced" => EverythingDenied
        /\ IsErr(applyResult) => ~restriction.committed

C1_Witness ==
    /\ pc = "apply_ret"
    /\ IsDefaultDeny(config)
    /\ applyResult = "Ok(())"
    /\ restriction.status = "FullyEnforced"
    /\ EverythingDenied

(***************************************************************************)
(* C2: exec::run is reached only after apply has returned success; when    *)
(* binary resolution, dependency discovery or apply fails, main exits with *)
(* status 1 and the target is never launched.                              *)
(***************************************************************************)
C2_ExecOnlyAfterApply ==
    /\ (pc \in {"exec_run", "replaced"} \/ launched) =>
          (applyResult = "Ok(())" /\ restriction.committed)
    /\ (\/ LogHas("Failed to find binary")
        \/ LogHas("Failed to detect library dependencies")
        \/ LogHas("Failed to apply sandbox")) =>
          (pc = "exited" /\ exitStatus = "1" /\ ~launched /\ applyResult # "Ok(())")
    /\ IsErr(applyResult) =>
          /\ ~launched
          /\ pc \in {"apply_ret", "exited"}
          /\ pc = "exited" => (exitStatus = "1" /\ LogHas("Failed to apply sandbox"))
    /\ pc = "exited" => exitStatus = "1"

C2_Witness ==
    /\ pc = "exited"
    /\ IsErr(applyResult)
    /\ exitStatus = "1"
    /\ ~launched

(***************************************************************************)
(* C3: restrict_self is executed at most once and only after every         *)
(* declared path of a governed filesystem domain and every declared port   *)
(* of a governed network domain has been registered; when a resolution or  *)
(* registration step fails apply returns an error and the process is as    *)
(* unrestricted as before the call.                                        *)
(***************************************************************************)
AllRegistered(rs) ==
    /\ ~config.unrestricted_filesystem =>
          /\ Len(rs.path_rules) = Len(DeclaredPaths(config))
          /\ \A i \in 1..Len(rs.path_rules) : rs.path_rules[i].path = DeclaredPaths(config)[i]
    /\ ~config.unrestricted_network =>
          /\ Len(rs.port_rules) = Len(DeclaredPorts(config))
          /\ \A i \in 1..Len(rs.port_rules) : rs.port_rules[i].port = DeclaredPorts(config)[i]

C3_CommitOnceAfterRegistration ==
    /\ [](restriction.committed => (AllRegistered(restriction) /\ applyResult = "Ok(())"))
    /\ [](IsErr(applyResult) => restriction = NotRestricted)
    /\ [][restriction.committed => restriction' = restriction]_vars
    /\ [][restriction' # restriction => pc \in {"restrict_self", "default_restrict_self"}]_vars

C3_Witness ==
    /\ restriction.committed
    /\ Len(restriction.path_rules) >= 2
    /\ restriction.port_rules # <<>>

(***************************************************************************)
(* C4 as stated: for every policy, whatever its flags, a declared path     *)
(* that cannot be opened makes apply return an error.                      *)
(***************************************************************************)
C4_UnopenableAlwaysFatal ==
    (pc = "apply_ret" /\ HasUnopenablePath(config)) => IsErr(applyResult)

(***************************************************************************)
(* C4 as amended: for every policy with unrestricted_filesystem false, a   *)
(* declared path that cannot be opened makes apply return an error without *)
(* committing; with unrestricted_filesystem true the paths are never       *)
(* opened and apply does not fail on them.                                 *)
(***************************************************************************)
C4_UnopenableFatalWhenGoverned ==
    /\ (pc = "apply_ret" /\ HasUnopenablePath(config) /\ ~config.unrestricted_filesystem) =>
          (IsErr(applyResult) /\ ~restriction.committed)
    /\ (config.unrestricted_filesystem /\ pc \in {"apply", "handle_fs", "handle_net", "create",
                                                   "bind", "connect", "restrict_self",
                                                   "apply_ret"}) =>
          ~LogHas("Failed to access path")

C4_Witness ==
    /\ pc = "apply_ret"
    /\ HasUnopenablePath(config)
    /\ ~config.unrestricted_filesystem
    /\ applyResult = "Err(Failed to access path)"
    /\ ruleset.path_rules # <<>>

(***************************************************************************)
(* The access-right table of the specification.                            *)
(***************************************************************************)
DirMutationRights ==
    {"ReadDir", "RemoveDir", "RemoveFile", "MakeChar", "MakeDir", "MakeReg",
     "MakeSock", "MakeFifo", "MakeBlock", "MakeSym"}

TableRights(cat, isDir) ==
    (CASE cat = "ro" -> {"ReadFile"}
       [] cat = "rox" -> {"ReadFile", "Execute"}
       [] cat = "rw" -> {"ReadFile", "WriteFile"}
       [] cat = "rwx" -> {"ReadFile", "WriteFile", "Execute"})
    \cup (IF ~isDir THEN {}
          ELSE IF cat \in {"ro", "rox"} THEN {"ReadDir"}
          ELSE DirMutationRights)

\* what the metadata lookup of a registered rule established
SeenAsDirectory(rule) == rule.metadata = "ok" /\ FsKind(rule.path) = "dir"

\* the declarations of a policy in the order apply visits them
Declarations(c) ==
    [i \in 1..Len(c.read_only_executable_paths) |->
        <<"rox", c.read_only_executable_paths[i]>>]
    \o [i \in 1..Len(c.read_write_executable_paths) |->
        <<"rwx", c.read_write_executable_paths[i]>>]
    \o [i \in 1..Len(c.read_only_paths) |-> <<"ro", c.read_only_paths[i]>>]
    \o [i \in 1..Len(c.read_write_paths) |-> <<"rw", c.read_write_paths[i]>>]

(***************************************************************************)
(* C5: the rights registered for a declared path are those of the table,   *)
(* chosen by its category and by whether the metadata lookup found a       *)
(* directory; a failed lookup gives the file-only set and no error; a      *)
(* policy with only read_only_executable_paths = [a file] registers        *)
(* exactly one rule, with {ReadFile, Execute}.                             *)
(***************************************************************************)
C5_RightsByCategoryAndKind ==
    /\ \A i \in 1..Len(ruleset.path_rules) :
          LET rule == ruleset.path_rules[i]
          IN  /\ rule.access = TableRights(rule.category, SeenAsDirectory(rule))
              /\ rule.metadata = "error" => rule.access = TableRights(rule.category, FALSE)
              /\ i <= Len(Declarations(config))
              /\ <<rule.category, rule.path>> = Declarations(config)[i]
    /\ (/\ pc = "apply_ret"
        /\ applyResult = "Ok(())"
        /\ Declarations(config) = <<<<"rox", "/bin/ls">>>>
        /\ ~config.unrestricted_filesystem) =>
          /\ Len(restriction.path_rules) = 1
          /\ restriction.path_rules[1].path = "/bin/ls"
          /\ restriction.path_rules[1].access = {"ReadFile", "Execute"}

C5_Witness ==
    /\ pc = "apply_ret"
    /\ applyResult = "Ok(())"
    /\ \E i, j \in 1..Len(restriction.path_rules) :
          /\ restriction.path_rules[i].category = "rw"
          /\ restriction.path_rules[i].metadata = "ok"
          /\ restriction.path_rules[i].path = "/usr/lib"
          /\ restriction.path_rules[i].access = {"ReadFile", "WriteFile"} \cup DirMutationRights
          /\ restriction.path_rules[j].metadata = "error"
          /\ restriction.path_rules[j].path = "/usr/lib"
          /\ "ReadDir" \notin restriction.path_rules[j].access

(***************************************************************************)
(* C6: with the filesystem governed, apply registers one rule per          *)
(* declaration, and in the committed ruleset the rights on a path are the  *)
(* union of the table's sets of all its declarations; during registration  *)
(* the rights on a path never shrink, whatever the order of categories.    *)
(***************************************************************************)
DeclaredRights(path) ==
    UNION {TableRights(Declarations(config)[i][1],
                       SeenAsDirectory(restriction.path_rules[i])) :
             i \in {j \in 1..Len(Declarations(config)) : Declarations(config)[j][2] = path}}

C6_AdditiveComposition ==
    /\ []((restriction.committed /\ ~config.unrestricted_filesystem) =>
            /\ Len(restriction.path_rules) = Len(Declarations(config))
            /\ \A i \in 1..Len(restriction.path_rules) :
                  <<restriction.path_rules[i].category, restriction.path_rules[i].path>>
                      = Declarations(config)[i]
            /\ \A path \in Paths : Effective(path) = DeclaredRights(path))
    /\ [][\A path \in Paths :
            RuleRights(ruleset.path_rules, path) \subseteq RuleRights(ruleset.path_rules', path)]_vars

C6_Witness ==
    /\ restriction.committed
    /\ ~config.unrestricted_filesystem
    /\ Len(restriction.path_rules) = 2
    /\ restriction.path_rules[1].path = restriction.path_rules[2].path
    /\ restriction.path_rules[1].category = "rox"
    /\ restriction.path_rules[2].category = "rw"
    /\ Effective(restriction.path_rules[1].path) # restriction.path_rules[1].access
    /\ Effective(restriction.path_rules[1].path) # restriction.path_rules[2].access

(***************************************************************************)
(* C7: with unrestricted_network set apply negotiates no network right and *)
(* registers no port rule, whatever the port lists hold; with              *)
(* unrestricted_filesystem set it negotiates no filesystem right and       *)
(* registers no path rule, whatever the path lists hold.                   *)
(***************************************************************************)
C7_UnrestrictedSuppressesDomain ==
    /\ config.unrestricted_network =>
          /\ ruleset.handled_net = {} /\ ruleset.port_rules = <<>>
          /\ restriction.enforced_net = {} /\ restriction.port_rules = <<>>
    /\ config.unrestricted_filesystem =>
          /\ ruleset.handled_fs = {} /\ ruleset.path_rules = <<>>
          /\ restriction.enforced_fs = {} /\ restriction.path_rules = <<>>

C7_Witness ==
    /\ pc = "apply_ret"
    /\ applyResult = "Ok(())"
    /\ config.unrestricted_network
    /\ ~config.unrestricted_filesystem
    /\ config.bind_tcp_ports # <<>>
    /\ restriction.path_rules # <<>>
    /\ restriction.port_rules = <<>>

(***************************************************************************)
(* C8: when the commit reports NotEnforced, apply returns success and the  *)
(* next step of main is the process replacement, on the default-deny path  *)
(* and on the general path alike.                                          *)
(***************************************************************************)
C8_DegradationNotFatal ==
    /\ [](restriction.status = "NotEnforced" =>
            /\ applyResult = "Ok(())"
            /\ ~LogHas("Failed to apply sandbox")
            /\ pc \in {"apply_ret", "exec_run", "replaced", "exited"}
            /\ pc = "exited" => LogHas("Failed to execute command"))
    /\ [][(pc = "apply_ret" /\ restriction.status = "NotEnforced") => pc' = "exec_run"]_vars

C8_Witness ==
    /\ restriction.status = "NotEnforced"
    /\ ~IsDefaultDeny(config)
    /\ ~config.unrestricted_filesystem
    /\ launched
    /\ pc = "replaced"


(***************************************************************************)
(* C9: the caller of apply can tell a committed run the kernel enforced    *)
(* from a committed run the kernel did not enforce by the value apply      *)
(* returns: the not-enforced run does not return the value the enforced    *)
(* run returns.                                                            *)
(***************************************************************************)
EnforcedReturn == "Ok(())"

C9_EnforcedRunReturnsOk ==
    (pc = "apply_ret" /\ restriction.committed /\ restriction.status # "NotEnforced") =>
        applyResult = EnforcedReturn

C9_OutcomeInResult ==
    (pc = "apply_ret" /\ restriction.committed /\ restriction.status = "NotEnforced") =>
        applyResult # EnforcedReturn

(***************************************************************************)
(* C10: process_environment_vars returns, in input order, every entry      *)
(* with '=' verbatim, KEY=<ambient value> for every entry without '='      *)
(* whose key is set in the ambient environment, nothing for an entry whose *)
(* key is unset, and nothing else.                                         *)
(***************************************************************************)
RECURSIVE ClaimedEnv(_, _)
ClaimedEnv(env_flags, amb) ==
    IF env_flags = <<>> THEN <<>>
    ELSE LET f == Head(env_flags)
             entry == IF contains(f, "=") THEN <<f>>
                      ELSE IF f \in DOMAIN amb /\ amb[f].set
                           THEN <<f \o <<"=">> \o amb[f].value>>
                           ELSE <<>>
         IN  entry \o ClaimedEnv(Tail(env_flags), amb)

C10_EnvPassThrough ==
    pc = "apply" => env_vars = ClaimedEnv(cli.env_vars, ambient)

\* the same, for ambient environments all of whose values are valid Unicode
C10_EnvPassThroughUnicode ==
    (pc = "apply" /\ \A k \in DOMAIN ambient : ambient[k].unicode) =>
        env_vars = ClaimedEnv(cli.env_vars, ambient)

(***************************************************************************)
(* C11: a failed ldd invocation yields an error and no entries, and ends   *)
(* main before apply.                                                      *)
(***************************************************************************)
LddFailures == LddOutcomes \ {"ok"}

\* the executable paths main holds before discovery (main.rs 133, 144-147)
PathsBeforeLdd ==
    IF cli.add_exec THEN Append(cli.read_only_executable_paths, binary_path)
    ELSE cli.read_only_executable_paths

ApplyEntered == LogHas("Applying sandbox configuration")

\* C11: whenever the ldd invocation cannot be started, exits non-zero or prints
\* non-UTF-8 output, get_library_dependencies returns an error and no entries, whatever
\* ldd printed; main, which runs it only for --ldd, has then added nothing to the
\* policy and has exited with status 1 without having entered apply, committed a
\* restriction or replaced the process; and with --ldd apply is entered only after a
\* discovery that succeeded.
C11_LddFailureIsFatal ==
    /\ \A outcome \in LddFailures, libs \in LddLibs :
         get_library_dependencies(outcome, libs) = [ok |-> FALSE, lib_paths |-> <<>>]
    /\ lddOutcome # "not_run" => cli.ldd
    /\ lddOutcome \in LddFailures =>
         /\ pc = "exited"
         /\ exitStatus = "1"
         /\ config.read_only_executable_paths = PathsBeforeLdd
         /\ ~ApplyEntered
         /\ applyResult = "none"
         /\ restriction = NotRestricted
         /\ ~launched
    /\ (cli.ldd /\ (ApplyEntered \/ launched)) => lddOutcome = "ok"

C11_Witness ==
    /\ cli.ldd
    /\ lddOutcome = "nonzero_exit"
    /\ pc = "exited"
    /\ exitStatus = "1"
    /\ LogHas("Failed to detect library dependencies")

====
